---------------------------- MODULE Spec2Model ----------------------------
(***************************************************************************)
(* A model of backend/app.py: the subscription gate (whop_required,        *)
(* verify_whop_token, the session) and the document pipeline               *)
(* (process_document, the extractors, the LLM gateway, the summary and     *)
(* question generators).  Python strings are TLA+ strings; one request is  *)
(* handled at a time on one session.                                       *)
(***************************************************************************)
EXTENDS Integers, Sequences, FiniteSets, TLC

VARIABLES
    FLASK_ENV,      \* os.getenv('FLASK_ENV')
    session,        \* the Flask session: a function from its keys to their values
    ok200,          \* history: the subscription API answered 200 since the session was last cleared
    logged_out,     \* history: logout cleared the session and no 200 has come since
    request,        \* the request being handled: [route, Authorization]
    whop_status,    \* the subscription API's answer to this request's verification call, or "none"
    pc,             \* the handler's position
    response,       \* the response, [status |-> 0] until one is produced
    raw_filename,   \* file.filename as uploaded
    filename,       \* secure_filename(file.filename)
    text,           \* the extracted text
    chunks,         \* the chunk list of line 184
    idx,            \* how many chunks the loop of line 188 has taken
    summaries,      \* line 185
    questions,      \* line 186
    result,         \* the LLM reply held by generate_questions (line 312)
    alarm,          \* seconds of the pending SIGALRM, 0 when none is armed
    deadlines_fired,\* history: the chunks during which the alarm went off
    extractor_calls,\* the extractors invoked for this request, in order
    llm_calls,      \* the requests posted to the LLM provider for this request, in order
    file,           \* the upload, where a specification fixes it beforehand, else None
    pages_read,     \* history: the pages whose extract_text() was called, where it is observed
    form,           \* the form fields, where a specification fixes them beforehand, else None
    gateway,        \* what the LLM gateway does for each chunk, where fixed beforehand, else None
    previous,       \* history: the first of two runs on one upload, once it is over
    reader_calls,   \* history: the parsers built on the upload, in order, where observed
    worker_model,   \* how the server runs two requests at once, where it does, else None
    pipelines       \* the chunk loops of two requests in one process, where observed

vars == << FLASK_ENV, session, ok200, logged_out, request, whop_status, pc, response,
           raw_filename, filename, text, chunks, idx, summaries, questions,
           result, alarm, deadlines_fired, extractor_calls, llm_calls,
           file, pages_read, form, gateway, previous, reader_calls,
           worker_model, pipelines >>

\* What only the specifications of one part of the program use.
partVars == << file, pages_read, form, gateway, previous, reader_calls,
              worker_model, pipelines >>

\* What only the specification of two requests at once uses.
poolVars == << worker_model, pipelines >>

authVars == << session, ok200, logged_out, whop_status >>
docVars == << raw_filename, filename, text, chunks, idx, summaries, questions,
              result, alarm, deadlines_fired, extractor_calls, llm_calls >>

-----------------------------------------------------------------------------
(* Bounds of the model.                                                    *)

\* The longest document, in pages (PDF) or paragraphs (Word).
MaxPages == 2
\* The longest LLM reply given to the question parser alone, in lines.
MaxLines == 3
\* The chunker alone is applied to texts of up to MaxChunks full chunks,
\* give or take Margin characters.
MaxChunks == 2
\* The most pages of a PDF handed to extract_text_from_pdf alone: more than a batch.
MaxPdfPages == 6
Margin == 3

-----------------------------------------------------------------------------
(* Python's str operations.                                                *)

\* Python's None, where a str is expected.
None == "<None>"

\* bool(v) of a str or None.
Truthy(v) == v # None /\ v # ""

CharAt(s, i) == SubSeq(s, i, i)

IsSpace(c) == c \in {" ", "\n", "\t", "\r"}

RECURSIVE FirstNonSpace(_, _)
FirstNonSpace(s, i) ==
    IF i > Len(s) THEN i
    ELSE IF IsSpace(CharAt(s, i)) THEN FirstNonSpace(s, i + 1) ELSE i

RECURSIVE LastNonSpace(_, _)
LastNonSpace(s, i) ==
    IF i < 1 THEN i
    ELSE IF IsSpace(CharAt(s, i)) THEN LastNonSpace(s, i - 1) ELSE i

\* s.strip()
Strip(s) == SubSeq(s, FirstNonSpace(s, 1), LastNonSpace(s, Len(s)))

\* s.startswith(p), s.endswith(p)
StartsWith(s, p) == Len(s) >= Len(p) /\ SubSeq(s, 1, Len(p)) = p
EndsWith(s, p) == Len(s) >= Len(p) /\ SubSeq(s, Len(s) - Len(p) + 1, Len(s)) = p

\* s[i:] with a 0-based i
From(s, i) == SubSeq(s, i + 1, Len(s))

\* s[i:j] with 0-based i <= j, j clipped to len(s)
Slice(s, i, j) == SubSeq(s, i + 1, IF j > Len(s) THEN Len(s) ELSE j)

RECURSIVE Find(_, _, _)
\* The first position >= i of the character c in s, 0 when there is none.
Find(s, c, i) ==
    IF i > Len(s) THEN 0
    ELSE IF CharAt(s, i) = c THEN i ELSE Find(s, c, i + 1)

RECURSIVE Split(_, _)
\* s.split(c) for a one-character separator c
Split(s, c) ==
    LET k == Find(s, c, 1)
    IN  IF k = 0 THEN << s >>
        ELSE << SubSeq(s, 1, k - 1) >> \o Split(SubSeq(s, k + 1, Len(s)), c)

RECURSIVE Join(_, _)
\* sep.join(parts)
Join(sep, parts) ==
    IF parts = << >> THEN ""
    ELSE IF Len(parts) = 1 THEN parts[1]
    ELSE parts[1] \o sep \o Join(sep, Tail(parts))

UpperCase == "ABCDEFGHIJKLMNOPQRSTUVWXYZ"
LowerCase == "abcdefghijklmnopqrstuvwxyz"
Digits == "0123456789"

\* The characters of s.
Chars(s) == {CharAt(s, i) : i \in 1..Len(s)}

\* Each upper-case letter's lower-case letter.
LowerOf ==
    [c \in Chars(UpperCase) |-> CharAt(LowerCase, CHOOSE i \in 1..26 : CharAt(UpperCase, i) = c)]

LowerChar(c) == IF c \in DOMAIN LowerOf THEN LowerOf[c] ELSE c

RECURSIVE Lower(_)
\* s.lower()
Lower(s) == IF s = "" THEN "" ELSE LowerChar(CharAt(s, 1)) \o Lower(From(s, 1))

RECURSIVE Rep(_, _)
\* s * n
Rep(s, n) ==
    IF n = 0 THEN ""
    ELSE LET h == Rep(s, n \div 2)
         IN  IF n % 2 = 1 THEN h \o h \o s ELSE h \o h

RECURSIVE Replace(_, _, _)
\* s.replace(old, new) for a non-empty old
Replace(s, old, new) ==
    IF Len(s) < Len(old) THEN s
    ELSE IF StartsWith(s, old) THEN new \o Replace(From(s, Len(old)), old, new)
    ELSE CharAt(s, 1) \o Replace(From(s, 1), old, new)

-----------------------------------------------------------------------------
(* The session and the subscription gate.                                  *)

ProtectedRoutes ==
    {"dashboard", "digitalplanner", "whiteboard", "flashcards", "pdf_tools",
     "process_document"}

PageRoutes == ProtectedRoutes \ {"process_document"}

OpenRoutes == {"home", "verify", "api_verify_whop", "logout"}

Routes == ProtectedRoutes \cup OpenRoutes

\* The Authorization header of a request: absent, empty, a bearer token.
AuthHeaders == {None, "", "Bearer tok"}

\* What requests.get to api.whop.com can do: answer 200 with the JSON identity,
\* answer 200 with a body that response.json() cannot decode, answer another
\* status, fail in transport (a RequestException).  The decoding error is a
\* RequestException in requests 2.27 and later ("200_nojson") and a plain
\* ValueError before ("200_nojson_raises"): the handler of line 90 catches the
\* first only.
WhopOutcomes == {"200", "200_nojson", "200_nojson_raises", "non200", "exception"}

\* The status code of outcome o was 200 (line 86).
Got200(o) == o \in {"200", "200_nojson", "200_nojson_raises"}

\* response.json() of a 200 answer
Identity == "whop-user"

EmptySession == [k \in {} |-> TRUE]

\* session[k] = v
SetItem(s, k, v) == [x \in DOMAIN s \cup {k} |-> IF x = k THEN v ELSE s[x]]

NoRequest == [route |-> "", Authorization |-> None]
NoResponse == [status |-> 0]

Redirect(endpoint) == [status |-> 302, location |-> endpoint]
Template(name) == [status |-> 200, template |-> name]
Json(status, body) == [status |-> status, json |-> body]
\* What Flask answers when an exception leaves a view.
Unhandled == [status |-> 500]

TemplateOf(route) ==
    CASE route = "dashboard" -> "index.html"
      [] route = "digitalplanner" -> "digital_planner.html"
      [] route = "whiteboard" -> "whiteboard.html"
      [] route = "flashcards" -> "flashcards.html"
      [] route = "pdf_tools" -> "pdf_document_intelligence.html"
      [] route = "verify" -> "whop.html"

\* verify_whop_token that writes the session whenever the API answered.
Mut_VerifyWhopToken(s, token, o) ==
    LET sent == IF StartsWith(token, "Bearer ") THEN token ELSE "Bearer " \o token
    IN  IF o = "exception"
        THEN [sent |-> sent, ret |-> FALSE, raises |-> FALSE, session |-> s]
        ELSE [sent |-> sent, ret |-> o = "200", raises |-> o = "200_nojson_raises",
              session |-> IF o = "200_nojson" \/ o = "200_nojson_raises"
                          THEN SetItem(s, "whop_verified", TRUE)
                          ELSE SetItem(SetItem(s, "whop_verified", TRUE), "whop_user", Identity)]

\* verify_whop_token(token), lines 76-92, when the subscription API does o:
\* the Authorization header sent, the session left, the value returned and
\* whether the call raised instead.  Line 87 writes whop_verified before line
\* 88 decodes the body.
VerifyWhopToken(s, token, o) ==
    LET sent == IF StartsWith(token, "Bearer ") THEN token ELSE "Bearer " \o token
    IN  CASE o = "200" ->
               [sent |-> sent, ret |-> TRUE, raises |-> FALSE,
                session |-> SetItem(SetItem(s, "whop_verified", TRUE), "whop_user", Identity)]
          [] o = "200_nojson" ->
               [sent |-> sent, ret |-> FALSE, raises |-> FALSE,
                session |-> SetItem(s, "whop_verified", TRUE)]
          [] o = "200_nojson_raises" ->
               [sent |-> sent, ret |-> FALSE, raises |-> TRUE,
                session |-> SetItem(s, "whop_verified", TRUE)]
          [] OTHER ->
               [sent |-> sent, ret |-> FALSE, raises |-> FALSE, session |-> s]

Verified(s) == "whop_verified" \in DOMAIN s

-----------------------------------------------------------------------------
(* The state after construction: no request yet, an empty session.         *)

\* No run is over.
NoRun == [over |-> FALSE]

PoolInit ==
    /\ worker_model = None
    /\ pipelines = << >>

PartInit ==
    /\ file = None
    /\ pages_read = << >>
    /\ form = None
    /\ gateway = None
    /\ previous = NoRun
    /\ reader_calls = << >>
    /\ PoolInit

DocInit ==
    /\ raw_filename = None
    /\ filename = None
    /\ text = None
    /\ chunks = << >>
    /\ idx = 0
    /\ summaries = << >>
    /\ questions = << >>
    /\ result = None
    /\ alarm = 0
    /\ deadlines_fired = 0
    /\ extractor_calls = << >>
    /\ llm_calls = << >>

Init ==
    /\ FLASK_ENV \in {"development", "production"}
    /\ session = EmptySession
    /\ ok200 = FALSE
    /\ logged_out = FALSE
    /\ request = NoRequest
    /\ whop_status = "none"
    /\ pc = "idle"
    /\ response = NoResponse
    /\ DocInit
    /\ PartInit

\* The locals die with the request, but for the loop's position, kept as if
\* it belonged to the module.
Mut_DocReset ==
    /\ raw_filename' = None
    /\ filename' = None
    /\ text' = None
    /\ chunks' = << >>
    /\ UNCHANGED idx
    /\ summaries' = << >>
    /\ questions' = << >>
    /\ result' = None
    /\ alarm' = 0
    /\ deadlines_fired' = 0
    /\ extractor_calls' = << >>
    /\ llm_calls' = << >>

\* The locals of process_document die with the request.
DocReset ==
    /\ raw_filename' = None
    /\ filename' = None
    /\ text' = None
    /\ chunks' = << >>
    /\ idx' = 0
    /\ summaries' = << >>
    /\ questions' = << >>
    /\ result' = None
    /\ alarm' = 0
    /\ deadlines_fired' = 0
    /\ extractor_calls' = << >>
    /\ llm_calls' = << >>

\* A request arrives on the session.
NewRequest ==
    /\ pc = "idle"
    /\ \E r \in Routes, a \in AuthHeaders :
          /\ request' = [route |-> r, Authorization |-> a]
          /\ pc' = IF r \in ProtectedRoutes THEN "gate" ELSE "body"
    /\ whop_status' = "none"
    /\ response' = NoResponse
    /\ DocReset
    /\ UNCHANGED << FLASK_ENV, partVars, session, ok200, logged_out >>

\* The handler returns resp.
Respond(resp) ==
    /\ response' = resp
    /\ pc' = "idle"

\* The gate with the session test after the token test: a request without a
\* token is redirected whatever the session holds.
Mut_WhopRequired ==
    /\ pc = "gate"
    /\ LET token == request.Authorization
       IN  IF FLASK_ENV = "development"
           THEN /\ pc' = "body"
                /\ UNCHANGED << session, ok200, logged_out, whop_status, response >>
           ELSE IF ~Truthy(token)
           THEN /\ Respond(Redirect("verify"))
                /\ UNCHANGED << session, ok200, logged_out, whop_status >>
           ELSE \E o \in WhopOutcomes :
                  LET v == VerifyWhopToken(session, token, o)
                  IN  /\ session' = v.session
                      /\ whop_status' = o
                      /\ ok200' = (ok200 \/ Got200(o))
                      /\ logged_out' = (logged_out /\ ~Got200(o))
                      /\ IF v.raises
                         THEN Respond(Unhandled)
                         ELSE IF v.ret
                         THEN pc' = "body" /\ UNCHANGED response
                         ELSE Respond(Redirect("verify"))
    /\ UNCHANGED << FLASK_ENV, partVars, request >>
    /\ UNCHANGED docVars

\* decorated_function of whop_required, lines 62-73.
WhopRequired ==
    /\ pc = "gate"
    /\ LET token == request.Authorization
       IN  IF FLASK_ENV = "development" \/ Verified(session)
           THEN /\ pc' = "body"
                /\ UNCHANGED << session, ok200, logged_out, whop_status, response >>
           ELSE IF ~Truthy(token)
           THEN /\ Respond(Redirect("verify"))
                /\ UNCHANGED << session, ok200, logged_out, whop_status >>
           ELSE \E o \in WhopOutcomes :
                  LET v == VerifyWhopToken(session, token, o)
                  IN  /\ session' = v.session
                      /\ whop_status' = o
                      /\ ok200' = (ok200 \/ Got200(o))
                      /\ logged_out' = (logged_out /\ ~Got200(o))
                      /\ IF v.raises
                         THEN Respond(Unhandled)
                         ELSE IF v.ret
                         THEN pc' = "body" /\ UNCHANGED response
                         ELSE Respond(Redirect("verify"))
    /\ UNCHANGED << FLASK_ENV, partVars, request >>
    /\ UNCHANGED docVars

\* home, lines 97-100.
Home ==
    /\ pc = "body" /\ request.route = "home"
    /\ Respond(Redirect(IF Verified(session) THEN "dashboard" ELSE "verify"))
    /\ UNCHANGED << FLASK_ENV, partVars, request >>
    /\ UNCHANGED authVars
    /\ UNCHANGED docVars

\* verify and the protected pages: each renders its template.
RenderPage ==
    /\ pc = "body" /\ request.route \in PageRoutes \cup {"verify"}
    /\ Respond(Template(TemplateOf(request.route)))
    /\ UNCHANGED << FLASK_ENV, partVars, request >>
    /\ UNCHANGED authVars
    /\ UNCHANGED docVars

\* api_verify_whop, lines 113-124.
ApiVerifyWhop ==
    /\ pc = "body" /\ request.route = "api_verify_whop"
    /\ LET header == IF request.Authorization = None THEN "" ELSE request.Authorization
           token == Replace(header, "Bearer ", "")
       IN  IF ~Truthy(token)
           THEN /\ Respond(Json(401, [success |-> FALSE, message |-> "No token provided"]))
                /\ UNCHANGED << session, ok200, logged_out, whop_status >>
           ELSE \E o \in WhopOutcomes :
                  LET v == VerifyWhopToken(session, token, o)
                  IN  /\ session' = v.session
                      /\ whop_status' = o
                      /\ ok200' = (ok200 \/ Got200(o))
                      /\ logged_out' = (logged_out /\ ~Got200(o))
                      /\ IF v.raises
                         THEN Respond(Unhandled)
                         ELSE IF v.ret
                         THEN Respond(Json(200, [success |-> TRUE, redirect |-> "dashboard"]))
                         ELSE Respond(Json(401, [success |-> FALSE,
                                                 message |-> "Invalid token"]))
    /\ UNCHANGED << FLASK_ENV, partVars, request >>
    /\ UNCHANGED docVars

\* logout that redirects and leaves the session as it is.
Mut_Logout ==
    /\ pc = "body" /\ request.route = "logout"
    /\ Respond(Redirect("verify"))
    /\ UNCHANGED << FLASK_ENV, partVars, request >>
    /\ UNCHANGED authVars
    /\ UNCHANGED docVars

\* logout, lines 127-129.
Logout ==
    /\ pc = "body" /\ request.route = "logout"
    /\ session' = EmptySession
    /\ ok200' = FALSE
    /\ logged_out' = TRUE
    /\ Respond(Redirect("verify"))
    /\ UNCHANGED << FLASK_ENV, partVars, request, whop_status >>
    /\ UNCHANGED docVars

-----------------------------------------------------------------------------
(* Uploads, extraction and chunking.                                       *)

chunk_size == 5000
MinTextLen == 100
ChunkTimeout == 15
WordTimeout == 30

\* The sequences over S of length at most n.
SeqsUpTo(S, n) == UNION {[1..k -> S] : k \in 0..n}

\* A text of n characters with no whitespace in it.
Body(n) == SubSeq(Rep("abcdefg", n \div 7 + 1), 1, n)

\* The characters a secure filename may hold: [A-Za-z0-9_.-].
SafeChars == Chars(UpperCase \o LowerCase \o Digits \o "_.-")

RECURSIVE RemoveUnsafe(_)
\* _filename_ascii_strip_re.sub("", s)
RemoveUnsafe(s) ==
    IF s = "" THEN ""
    ELSE (IF CharAt(s, 1) \in SafeChars THEN CharAt(s, 1) ELSE "") \o RemoveUnsafe(From(s, 1))

RECURSIVE StripChars(_, _)
\* s.strip(chars)
StripChars(s, chars) ==
    IF s = "" THEN ""
    ELSE IF CharAt(s, 1) \in chars THEN StripChars(From(s, 1), chars)
    ELSE IF CharAt(s, Len(s)) \in chars THEN StripChars(SubSeq(s, 1, Len(s) - 1), chars)
    ELSE s

\* s.split(): the runs of non-whitespace of s
Words(s) == SelectSeq(Split(Replace(Replace(Replace(s, "\n", " "), "\t", " "), "\r", " "), " "),
                      LAMBDA w : w # "")

\* werkzeug's secure_filename on an ASCII name: path separators become blanks,
\* the words are joined by "_", unsafe characters go, and leading and trailing
\* dots and underscores are stripped.
SecureFilename(raw) ==
    StripChars(RemoveUnsafe(Join("_", Words(Replace(raw, "/", " ")))), {".", "_"})

\* file.filename of the uploads the model sends.
RawFilenames ==
    {"", "...", ".pdf", "data.txt", "../My Report.PDF", "essay.docx", "memo.doc"}

\* A form field: absent, an integer, not an integer.
FormValues == {None, " 20 ", "abc", ""}

RECURSIVE AllDigits(_)
AllDigits(s) == s = "" \/ (CharAt(s, 1) \in Chars(Digits) /\ AllDigits(From(s, 1)))

\* int() that takes any text.
Mut_IntParses(v) == TRUE

\* Whether int(v) returns for a form value v (None: the integer default is used).
IntParses(v) ==
    \/ v = None
    \/ LET t == Strip(v)
           d == IF StartsWith(t, "-") \/ StartsWith(t, "+") THEN From(t, 1) ELSE t
       IN  d # "" /\ AllDigits(d)

\* What extract_text() of a page can do: raise, or return a text.
PageTexts ==
    {"", "  " \o Body(MinTextLen \div 2 - 1) \o " \n", Body(MinTextLen \div 2),
     Body(chunk_size \div 2)}

Pages == {[raises |-> TRUE, text |-> ""]} \cup {[raises |-> FALSE, text |-> t] : t \in PageTexts}

\* A PDF upload: PdfReader succeeds at once ("ok"), only on the re-read
\* ("reread"), or on neither ("fail").
PdfDocs ==
    {[parse |-> p, pages |-> ps] : p \in {"ok", "reread"}, ps \in SeqsUpTo(Pages, MaxPages)}
    \cup {[parse |-> "fail", pages |-> << >>]}

\* A Word upload: Document() returns its paragraphs, raises, or outlasts the deadline.
WordDocs ==
    {[parse |-> "ok", paragraphs |-> ps] : ps \in SeqsUpTo(PageTexts, MaxPages)}
    \cup {[parse |-> "fail", paragraphs |-> << >>], [parse |-> "timeout", paragraphs |-> << >>]}

\* A call's result: what it returned, or the message of what it raised.
Return(v) == [exc |-> "", val |-> v]
Raise(msg) == [exc |-> msg, val |-> None]
Raised(r) == r.exc # ""

batch_size == 5

\* Nothing read yet: line 228.
NoScan == [text |-> "", read |-> << >>]

RECURSIVE Mut_PdfBatch(_, _, _, _)
\* The inner loop with a failing page ending the scan of its batch.
Mut_PdfBatch(pages, page_num, batch_end, scan) ==
    IF page_num >= batch_end THEN scan
    ELSE LET page == pages[page_num + 1]
         IN  IF page.raises THEN [text |-> scan.text, read |-> Append(scan.read, page_num)]
             ELSE Mut_PdfBatch(pages, page_num + 1, batch_end,
                     [text |-> scan.text \o (IF Truthy(page.text)
                                             THEN Strip(page.text) \o "\n" ELSE ""),
                      read |-> Append(scan.read, page_num)])

RECURSIVE PdfBatch(_, _, _, _)
\* The inner loop of lines 235-241 from page_num (counted from 0) on: the page's
\* extract_text() is called; a page that raises or yields nothing adds nothing.
PdfBatch(pages, page_num, batch_end, scan) ==
    IF page_num >= batch_end THEN scan
    ELSE LET page == pages[page_num + 1]
         IN  PdfBatch(pages, page_num + 1, batch_end,
                [text |-> scan.text \o (IF ~page.raises /\ Truthy(page.text)
                                        THEN Strip(page.text) \o "\n" ELSE ""),
                 read |-> Append(scan.read, page_num)])

RECURSIVE PdfBatches(_, _, _)
\* The outer loop of lines 232-233 from batch_start on.
PdfBatches(pages, batch_start, scan) ==
    IF batch_start >= Len(pages) THEN scan
    ELSE LET batch_end == IF batch_start + batch_size < Len(pages)
                          THEN batch_start + batch_size ELSE Len(pages)
         IN  PdfBatches(pages, batch_start + batch_size,
                        PdfBatch(pages, batch_start, batch_end, scan))

\* The text the loops of lines 232-241 gather from page i (counted from 1) on.
PdfPagesText(pages, i) == PdfBatches(pages, i - 1, NoScan).text

\* PdfReader built again on a fresh buffer whatever the first attempt did.
Mut_ReaderCalls(kind, doc) ==
    IF kind = "word" THEN << "Document(BytesIO)" >>
    ELSE << "PdfReader(file)", "PdfReader(BytesIO)" >>

\* The parsers built on an upload of one kind: PdfReader on the stream and,
\* when that raises, on a fresh buffer (lines 223-226); Document once (line 251).
ReaderCalls(kind, doc) ==
    IF kind = "word" THEN << "Document(BytesIO)" >>
    ELSE IF doc.parse = "ok" THEN << "PdfReader(file)" >>
    ELSE << "PdfReader(file)", "PdfReader(BytesIO)" >>

\* extract_text_from_pdf, lines 221-246.
ExtractTextFromPdf(doc) ==
    IF doc.parse = "fail"
    THEN Raise("PDF extraction error: " \o "EOF marker not found")
    ELSE LET t == PdfPagesText(doc.pages, 1)
         IN  Return(IF Strip(t) # "" THEN Strip(t) ELSE "No readable text found in PDF")

\* extract_text_from_word with the deadline caught by the general handler.
Mut_ExtractTextFromWord(doc) ==
    CASE doc.parse = "timeout" -> Raise("Word extraction error: " \o "Operation timed out")
      [] doc.parse = "fail" -> Raise("Word extraction error: " \o "File is not a zip file")
      [] doc.parse = "ok" ->
           LET t == Join("\n", doc.paragraphs)
           IN  Return(IF Strip(t) # "" THEN Strip(t)
                      ELSE "No readable text found in Word document")

\* extract_text_from_word, lines 248-257.
ExtractTextFromWord(doc) ==
    CASE doc.parse = "timeout" -> Raise("Word processing timed out")
      [] doc.parse = "fail" -> Raise("Word extraction error: " \o "File is not a zip file")
      [] doc.parse = "ok" ->
           LET t == Join("\n", doc.paragraphs)
           IN  Return(IF Strip(t) # "" THEN Strip(t)
                      ELSE "No readable text found in Word document")

RECURSIVE Mut_Chunker(_, _, _)
\* The chunker with a range that stops before a trailing partial chunk.
Mut_Chunker(t, i, size) ==
    IF i + size > Len(t) THEN << >>
    ELSE << Slice(t, i, i + size) >> \o Mut_Chunker(t, i + size, size)

RECURSIVE Chunker(_, _, _)
\* [text[i:i+size] for i in range(i, len(text), size)], line 184
Chunker(t, i, size) ==
    IF i >= Len(t) THEN << >>
    ELSE << Slice(t, i, i + size) >> \o Chunker(t, i + size, size)

\* The test of line 172 without the dot of the extension.
Mut_IsPdf(name) == EndsWith(Lower(name), "pdf")

\* The tests of lines 172 and 174.
IsPdf(name) == EndsWith(Lower(name), ".pdf")
IsWord(name) == EndsWith(Lower(name), ".doc") \/ EndsWith(Lower(name), ".docx")

\* The guard of line 179 with <= for <.
Mut_TooShort(t) == ~Truthy(t) \/ Len(Strip(t)) <= MinTextLen

\* The guard of line 179.
TooShort(t) == ~Truthy(t) \/ Len(Strip(t)) < MinTextLen

\* process_document, lines 159-169: the upload and the form are read.
\* secure_filename of each upload's name, computed once.
SecureNames == [raw \in RawFilenames |-> SecureFilename(raw)]

\* process_document, lines 158-169, on one upload and one form.
ReceiveUploadOf(has_file, raw, summary_length, question_count) ==
    /\ pc = "body" /\ request.route = "process_document"
    /\ IF ~has_file
       THEN /\ Respond(Json(400, [error |-> "No file uploaded"]))
            /\ UNCHANGED << raw_filename, filename >>
       ELSE /\ raw_filename' = raw
            /\ filename' = SecureNames[raw]
            /\ IF ~Truthy(filename')
               THEN Respond(Json(400, [error |-> "Invalid file"]))
               ELSE IF ~IntParses(summary_length) \/ ~IntParses(question_count)
               THEN Respond(Json(400, [error |-> "Invalid input parameters"]))
               ELSE pc' = "extract" /\ UNCHANGED response
    /\ UNCHANGED << FLASK_ENV, partVars, request >>
    /\ UNCHANGED authVars
    /\ UNCHANGED << text, chunks, idx, summaries, questions, result, alarm,
                    deadlines_fired, extractor_calls, llm_calls >>

\* process_document, lines 158-169, on any upload and any form.
ReceiveUpload ==
    /\ pc = "body" /\ request.route = "process_document"
    /\ \E has_file \in BOOLEAN, raw \in RawFilenames,
          summary_length \in FormValues, question_count \in FormValues :
             ReceiveUploadOf(has_file, raw, summary_length, question_count)

\* Lines 212 and 172-177 with an extraction result r of extractor kind.
Extracted(kind, r) ==
    /\ extractor_calls' = Append(extractor_calls, kind)
    /\ IF Raised(r)
       THEN /\ Respond(Json(500, [error |-> "Failed to process document: " \o r.exc]))
            /\ UNCHANGED text
       ELSE /\ text' = r.val
            /\ pc' = "check_text"
            /\ UNCHANGED response

\* The upload goes to extract_text_from_word, lines 173-174.
WordBranch == ~IsPdf(filename) /\ IsWord(filename)

\* Lines 173-174 and 249-250: extract_text_from_word is entered and the
\* alarm of its with block armed.
ArmWordTimeout ==
    /\ pc = "extract" /\ WordBranch
    /\ alarm' = WordTimeout
    /\ pc' = "word"
    /\ UNCHANGED << FLASK_ENV, partVars, request, response >>
    /\ UNCHANGED authVars
    /\ UNCHANGED << raw_filename, filename, text, chunks, idx, summaries, questions, result,
                    deadlines_fired, extractor_calls, llm_calls >>

\* process_document, lines 171-177, when the upload's content is doc; for a
\* Word upload the rest of the with block of line 250, whose exit disarms the
\* alarm.  The parsers built are recorded by the action that runs it.
ExtractFile(doc) ==
    /\ pc = (IF WordBranch THEN "word" ELSE "extract")
    /\ alarm' = (IF WordBranch THEN 0 ELSE alarm)
    /\ IF IsPdf(filename)
       THEN Extracted("pdf", ExtractTextFromPdf(doc))
       ELSE IF IsWord(filename)
       THEN Extracted("word", ExtractTextFromWord(doc))
       ELSE /\ Respond(Json(400, [error |-> "Unsupported file type"]))
            /\ UNCHANGED << text, extractor_calls >>
    /\ UNCHANGED << FLASK_ENV, file, pages_read, form, gateway, previous, request >>
    /\ UNCHANGED poolVars
    /\ UNCHANGED authVars
    /\ UNCHANGED << raw_filename, filename, chunks, idx, summaries, questions, result,
                    deadlines_fired, llm_calls >>

\* process_document, lines 171-177: the extractor is chosen by the extension and run.
Extract ==
    /\ pc \in {"extract", "word"}
    /\ \E doc \in (IF IsPdf(filename) THEN PdfDocs ELSE IF IsWord(filename) THEN WordDocs
                   ELSE {None}) :
           ExtractFile(doc)
    /\ UNCHANGED reader_calls

\* process_document, lines 179-186: the length guard, then the chunk list.
CheckText ==
    /\ pc = "check_text"
    /\ IF TooShort(text)
       THEN /\ Respond(Json(400, [error |-> "No readable text in file"]))
            /\ UNCHANGED chunks
       ELSE /\ chunks' = Chunker(text, 0, chunk_size)
            /\ pc' = "loop"
            /\ UNCHANGED response
    /\ summaries' = << >>
    /\ questions' = << >>
    /\ UNCHANGED << FLASK_ENV, partVars, request >>
    /\ UNCHANGED authVars
    /\ UNCHANGED << raw_filename, filename, text, idx, result, alarm,
                    deadlines_fired, extractor_calls, llm_calls >>

-----------------------------------------------------------------------------
(* The LLM gateway and the generators.                                     *)

\* The replies the model's LLM gives to a summary prompt and to a question prompt.
SummaryReplies == {"Sum-A", "Sum-B", ""}
QuestionReplies == {"Q: a\nA: 1", "Q: b\n\nQ: c\nA: 3", "I cannot help with that.", ""}

\* The prompts of lines 300 and 308-310 for a chunk t.
SummaryPrompt(t) ==
    "Write a concise summary of the following text:\n\n" \o Slice(t, 0, 15000)

QuestionsPrompt(t) ==
    "Generate exam-style questions with answers based on:\n        " \o Slice(t, 0, 15000)
        \o "\n        Format each as: Q: [question]\nA: [answer]"

\* The prompts posted by the requests calls, in order, for the chunk list cs.
Prompts(calls, cs) ==
    [i \in 1..Len(calls) |-> IF calls[i].kind = "summary" THEN SummaryPrompt(cs[calls[i].chunk])
                             ELSE QuestionsPrompt(cs[calls[i].chunk])]

\* What a call of query_openrouter can meet: no API key, a transport failure, a
\* status other than 200, the SIGALRM arriving while requests.post blocks, a
\* 200 without choices, a 200 with a reply.
LlmOutcomes(replies) ==
    {[kind |-> k, content |-> None] :
        k \in {"missing_key", "network", "status", "deadline", "no_choices"}}
    \cup {[kind |-> "content", content |-> c] : c \in replies}

\* Whether the request reaches the provider.
Sent(o) == o.kind # "missing_key"

\* query_openrouter, lines 259-296.
QueryOpenrouter(o) ==
    CASE o.kind = "missing_key" -> Raise("API error: " \o "OpenRouter API key not set")
      [] o.kind = "network" -> Raise("Network error: " \o "Connection refused")
      [] o.kind = "status" ->
           Raise("API error: " \o "OpenRouter API error: 503" \o " - " \o "Service Unavailable")
      [] o.kind = "deadline" -> Raise("API error: " \o "Operation timed out")
      [] o.kind = "no_choices" -> Return(None)
      [] o.kind = "content" -> Return(o.content)

\* generate_summary, lines 298-304.
GenerateSummary(o) ==
    LET r == QueryOpenrouter(o)
    IN  IF Raised(r) THEN Raise("Summary generation error: " \o r.exc)
        ELSE Return(IF Truthy(r.val) THEN r.val ELSE "Failed to generate summary")

NoQuestion == [pending |-> FALSE, question |-> "", answer |-> ""]

RECURSIVE Mut_ParseLines(_, _, _, _)
\* The parser without the flush of lines 332-333.
Mut_ParseLines(lines, i, qs, current_q) ==
    IF i > Len(lines)
    THEN qs
    ELSE LET line == Strip(lines[i])
         IN  IF line = "" THEN Mut_ParseLines(lines, i + 1, qs, current_q)
             ELSE IF StartsWith(line, "Q:")
             THEN Mut_ParseLines(lines, i + 1,
                     IF current_q.pending
                     THEN Append(qs, [question |-> current_q.question,
                                      answer |-> current_q.answer])
                     ELSE qs,
                     [pending |-> TRUE, question |-> Strip(From(line, 2)), answer |-> ""])
             ELSE IF StartsWith(line, "A:") /\ current_q.pending
             THEN Mut_ParseLines(lines, i + 1,
                     Append(qs, [question |-> current_q.question,
                                 answer |-> Strip(From(line, 2))]),
                     NoQuestion)
             ELSE Mut_ParseLines(lines, i + 1, qs, current_q)

RECURSIVE ParseLines(_, _, _, _)
\* The loop of lines 319-330 from line i on, then the flush of lines 332-333.
ParseLines(lines, i, qs, current_q) ==
    IF i > Len(lines)
    THEN IF current_q.pending
         THEN Append(qs, [question |-> current_q.question, answer |-> current_q.answer])
         ELSE qs
    ELSE LET line == Strip(lines[i])
         IN  IF line = "" THEN ParseLines(lines, i + 1, qs, current_q)
             ELSE IF StartsWith(line, "Q:")
             THEN ParseLines(lines, i + 1,
                     IF current_q.pending
                     THEN Append(qs, [question |-> current_q.question,
                                      answer |-> current_q.answer])
                     ELSE qs,
                     [pending |-> TRUE, question |-> Strip(From(line, 2)), answer |-> ""])
             ELSE IF StartsWith(line, "A:") /\ current_q.pending
             THEN ParseLines(lines, i + 1,
                     Append(qs, [question |-> current_q.question,
                                 answer |-> Strip(From(line, 2))]),
                     NoQuestion)
             ELSE ParseLines(lines, i + 1, qs, current_q)

\* generate_questions from the reply on, lines 313-335.
ParseQuestions(reply) ==
    IF ~Truthy(reply) THEN << >> ELSE ParseLines(Split(reply, "\n"), 1, << >>, NoQuestion)

-----------------------------------------------------------------------------
(* The per-chunk loop and the aggregation.                                 *)

LoopPcs == {"loop", "summary", "questions", "parse"}

\* An exception leaves the with block of line 190 and the loop with it: the
\* handler of line 216 answers.
Mut_SkipChunk ==
    /\ alarm' = 0
    /\ result' = None
    /\ Respond(Json(500, [error |-> "Failed to process document: " \o "chunk failed"]))

\* An exception leaves the with block of line 190 with the alarm still pending.
Mut_SkipChunkArmed ==
    /\ alarm' = alarm
    /\ result' = None
    /\ pc' = "loop"
    /\ UNCHANGED response

\* An exception leaves the with block of line 190: the finally of timeout()
\* disarms the alarm and the handlers of lines 198-201 continue the loop.
SkipChunk ==
    /\ alarm' = 0
    /\ result' = None
    /\ pc' = "loop"
    /\ UNCHANGED response

\* Lines 188-190: the next chunk is taken and the alarm armed.
NextChunk ==
    /\ pc = "loop" /\ idx < Len(chunks)
    /\ idx' = idx + 1
    /\ alarm' = ChunkTimeout
    /\ pc' = "summary"
    /\ UNCHANGED << FLASK_ENV, partVars, request, response >>
    /\ UNCHANGED authVars
    /\ UNCHANGED << raw_filename, filename, text, chunks, summaries, questions, result,
                    deadlines_fired, extractor_calls, llm_calls >>

\* Lines 191-193 when the gateway does o.
SummarizeWith(o) ==
    /\ pc = "summary"
    /\ LET r == GenerateSummary(o)
       IN  /\ llm_calls' = IF Sent(o)
                           THEN Append(llm_calls, [kind |-> "summary", chunk |-> idx])
                           ELSE llm_calls
           /\ deadlines_fired' = deadlines_fired + (IF o.kind = "deadline" THEN 1 ELSE 0)
           /\ IF Raised(r)
              THEN SkipChunk /\ UNCHANGED summaries
              ELSE /\ summaries' = IF Truthy(r.val) THEN Append(summaries, r.val)
                                   ELSE summaries
                   /\ pc' = "questions"
                   /\ UNCHANGED << alarm, result, response >>
    /\ UNCHANGED << FLASK_ENV, partVars, request >>
    /\ UNCHANGED authVars
    /\ UNCHANGED << raw_filename, filename, text, chunks, idx, questions, extractor_calls >>

\* Lines 191-193.
Summarize == pc = "summary" /\ \E o \in LlmOutcomes(SummaryReplies) : SummarizeWith(o)

\* Lines 195 and 307-312 when the gateway does o.
AskQuestionsWith(o) ==
    /\ pc = "questions"
    /\ LET r == QueryOpenrouter(o)
       IN  /\ llm_calls' = IF Sent(o)
                           THEN Append(llm_calls, [kind |-> "questions", chunk |-> idx])
                           ELSE llm_calls
           /\ deadlines_fired' = deadlines_fired + (IF o.kind = "deadline" THEN 1 ELSE 0)
           /\ IF Raised(r)
              THEN SkipChunk
              ELSE /\ result' = r.val
                   /\ pc' = "parse"
                   /\ UNCHANGED << alarm, response >>
    /\ UNCHANGED << FLASK_ENV, partVars, request >>
    /\ UNCHANGED authVars
    /\ UNCHANGED << raw_filename, filename, text, chunks, idx, summaries, questions,
                    extractor_calls >>

\* Lines 195 and 307-312: generate_questions asks the LLM.
AskQuestions == pc = "questions" /\ \E o \in LlmOutcomes(QuestionReplies) : AskQuestionsWith(o)

\* Lines 313-335 and 196-197, then the with block ends and disarms the alarm.
ExtendQuestions ==
    /\ pc = "parse"
    /\ questions' = questions \o ParseQuestions(result)
    /\ result' = None
    /\ alarm' = 0
    /\ pc' = "loop"
    /\ UNCHANGED << FLASK_ENV, partVars, request, response >>
    /\ UNCHANGED authVars
    /\ UNCHANGED << raw_filename, filename, text, chunks, idx, summaries,
                    deadlines_fired, extractor_calls, llm_calls >>

\* The alarm goes off between two calls of the with block: timeout_handler
\* raises TimeoutException where the handler stands.
Deadline ==
    /\ alarm > 0 /\ pc \in {"summary", "questions", "parse"}
    /\ deadlines_fired' = deadlines_fired + 1
    /\ SkipChunk
    /\ UNCHANGED << FLASK_ENV, partVars, request >>
    /\ UNCHANGED authVars
    /\ UNCHANGED << raw_filename, filename, text, chunks, idx, summaries, questions,
                    extractor_calls, llm_calls >>

\* A str as an element of a JSON array that may also hold objects.
JsonString(s) == [string |-> s]

\* Lines 203-209.
SuccessBody(sums, qs) ==
    LET final_summary == Strip(Join(" ", sums))
    IN  [summary |-> IF Truthy(final_summary) THEN final_summary ELSE "No summary generated",
         questions |-> IF qs # << >> THEN qs ELSE << JsonString("No questions generated") >>,
         status |-> "success"]

\* The loop is over: lines 203-209.
Aggregate ==
    /\ pc = "loop" /\ idx = Len(chunks)
    /\ Respond(Json(200, SuccessBody(summaries, questions)))
    /\ UNCHANGED << FLASK_ENV, partVars, request >>
    /\ UNCHANGED authVars
    /\ UNCHANGED docVars

-----------------------------------------------------------------------------

\* One step of the handler of the request at hand.
Handle ==
    \/ WhopRequired
    \/ Home
    \/ RenderPage
    \/ ApiVerifyWhop
    \/ Logout
    \/ ReceiveUpload
    \/ ArmWordTimeout
    \/ Extract
    \/ CheckText
    \/ NextChunk
    \/ Summarize
    \/ AskQuestions
    \/ ExtendQuestions
    \/ Deadline
    \/ Aggregate

Next == NewRequest \/ Handle

Spec == Init /\ [][Next]_vars

-----------------------------------------------------------------------------
(* The chunker alone: line 184 applied to texts of every length around the *)
(* multiples of chunk_size, the empty text among them.                     *)

ChunkerLens ==
    {n \in {k * chunk_size + d : k \in 0..MaxChunks, d \in (0 - Margin)..Margin} : n >= 0}

ChunkerInputs ==
    {SubSeq(Rep(pat, n \div Len(pat) + 1), 1, n) : pat \in {"abcdefg", "xy \n", "Q", " "},
                                                    n \in ChunkerLens}

InitChunker ==
    /\ FLASK_ENV = "production"
    /\ session = EmptySession
    /\ ok200 = FALSE
    /\ logged_out = FALSE
    /\ request = NoRequest
    /\ whop_status = "none"
    /\ response = NoResponse
    /\ pc = "chunker"
    /\ raw_filename = None
    /\ filename = None
    /\ text \in ChunkerInputs
    /\ chunks = << >>
    /\ idx = 0
    /\ summaries = << >>
    /\ questions = << >>
    /\ result = None
    /\ alarm = 0
    /\ deadlines_fired = 0
    /\ extractor_calls = << >>
    /\ llm_calls = << >>
    /\ PartInit

\* Lines 183-184.
ApplyChunker ==
    /\ pc = "chunker"
    /\ chunks' = Chunker(text, 0, chunk_size)
    /\ pc' = "chunked"
    /\ UNCHANGED << FLASK_ENV, partVars, request, response >>
    /\ UNCHANGED authVars
    /\ UNCHANGED << raw_filename, filename, text, idx, summaries, questions, result,
                    alarm, deadlines_fired, extractor_calls, llm_calls >>

SpecChunker == InitChunker /\ [][ApplyChunker]_vars

-----------------------------------------------------------------------------
(* The question parser alone: lines 313-335 applied to every reply of at   *)
(* most MaxLines lines.                                                    *)

ReplyLines == {"Q: a", " Q:b ", "A: 1", "  A: 2", "", "note"}

ParserInputs == {Join("\n", ls) : ls \in SeqsUpTo(ReplyLines, MaxLines)}

InitParser ==
    /\ FLASK_ENV = "production"
    /\ session = EmptySession
    /\ ok200 = FALSE
    /\ logged_out = FALSE
    /\ request = NoRequest
    /\ whop_status = "none"
    /\ response = NoResponse
    /\ pc = "parser"
    /\ raw_filename = None
    /\ filename = None
    /\ text = None
    /\ chunks = << >>
    /\ idx = 0
    /\ summaries = << >>
    /\ questions = << >>
    /\ result \in ParserInputs
    /\ alarm = 0
    /\ deadlines_fired = 0
    /\ extractor_calls = << >>
    /\ llm_calls = << >>
    /\ PartInit

\* Lines 313-335.
ApplyParser ==
    /\ pc = "parser"
    /\ questions' = ParseQuestions(result)
    /\ pc' = "parsed"
    /\ UNCHANGED << FLASK_ENV, partVars, request, response >>
    /\ UNCHANGED authVars
    /\ UNCHANGED << raw_filename, filename, text, chunks, idx, summaries, result,
                    alarm, deadlines_fired, extractor_calls, llm_calls >>

SpecParser == InitParser /\ [][ApplyParser]_vars

-----------------------------------------------------------------------------
(* extract_text_from_pdf alone: lines 221-246 applied to every PDF of at   *)
(* most MaxPdfPages pages, each page raising, empty, blank or with text.   *)

PdfPageKinds ==
    {[raises |-> TRUE, text |-> ""]}
    \cup {[raises |-> FALSE, text |-> t] : t \in {"", " ", " A\n", "b"}}

PdfInputs ==
    {[parse |-> p, pages |-> ps] : p \in {"ok", "reread"},
                                   ps \in SeqsUpTo(PdfPageKinds, MaxPdfPages)}
    \cup {[parse |-> "fail", pages |-> << >>]}

InitPdf ==
    /\ FLASK_ENV = "production"
    /\ session = EmptySession
    /\ ok200 = FALSE
    /\ logged_out = FALSE
    /\ request = NoRequest
    /\ whop_status = "none"
    /\ response = NoResponse
    /\ pc = "pdf"
    /\ DocInit
    /\ file \in PdfInputs
    /\ pages_read = << >>
    /\ form = None
    /\ gateway = None
    /\ previous = NoRun
    /\ reader_calls = << >>
    /\ PoolInit

\* Lines 221-246.
ApplyPdf ==
    /\ pc = "pdf"
    /\ text' = ExtractTextFromPdf(file).val
    /\ pages_read' = IF file.parse = "fail" THEN << >>
                     ELSE PdfBatches(file.pages, 0, NoScan).read
    /\ pc' = "pdf_done"
    /\ UNCHANGED << FLASK_ENV, request, response, file, form, gateway, previous >>
    /\ UNCHANGED poolVars
    /\ reader_calls' = ReaderCalls("pdf", file)
    /\ UNCHANGED authVars
    /\ UNCHANGED << raw_filename, filename, chunks, idx, summaries, questions, result,
                    alarm, deadlines_fired, extractor_calls, llm_calls >>

SpecPdf == InitPdf /\ [][ApplyPdf]_vars

-----------------------------------------------------------------------------
(* The chunk loops of two requests handled at once by one server process.  *)
(* SIGALRM, its handler and the alarm are the process's, not the           *)
(* request's.  A server that runs each request in a thread of its own      *)
(* leaves signal.signal (line 51) raising ValueError off the main thread;  *)
(* one that runs them as cooperative tasks of the main thread lets them    *)
(* interleave wherever a call blocks, with one alarm between them.         *)

Workers == {1, 2}
WorkerModels == {"threads", "main"}

\* Seconds that pass in one step of the clock, and the longest a block is followed.
TickSeconds == 5
MaxBlockSeconds == ChunkTimeout + TickSeconds

\* One request's loop: its position, the chunks taken, the seconds spent in
\* the with block at hand, the chunks left on a TimeoutException with the
\* seconds their block had lasted, the chunks left on a ValueError.
NewPipeline == [pc |-> "loop", idx |-> 0, elapsed |-> 0, timeouts |-> {}, value_errors |-> 0]

InitTwo ==
    /\ FLASK_ENV = "development"
    /\ session = EmptySession
    /\ ok200 = FALSE
    /\ logged_out = FALSE
    /\ request = [route |-> "process_document", Authorization |-> None]
    /\ whop_status = "none"
    /\ response = NoResponse
    /\ pc = "two"
    /\ DocInit
    /\ file = None
    /\ pages_read = << >>
    /\ form = None
    /\ gateway = None
    /\ previous = NoRun
    /\ reader_calls = << >>
    /\ worker_model \in WorkerModels
    /\ pipelines = [w \in Workers |-> NewPipeline]

\* What the two loops leave alone.
TwoUnchanged ==
    /\ UNCHANGED << FLASK_ENV, request, response, pc, worker_model >>
    /\ UNCHANGED << file, pages_read, form, gateway, previous, reader_calls >>
    /\ UNCHANGED authVars
    /\ UNCHANGED << raw_filename, filename, text, chunks, idx, summaries, questions,
                    result, deadlines_fired, extractor_calls, llm_calls >>

\* The seconds of every block under way after s more have passed.
Later(s) ==
    [w \in Workers |->
        IF pipelines[w].pc = "block"
        THEN [pipelines[w] EXCEPT !.elapsed = @ + s]
        ELSE pipelines[w]]

\* Lines 188-190 and 51-52 for request w: the next chunk is taken; off the
\* main thread signal.signal raises ValueError and the handler of line 200
\* skips the chunk; in the main thread the process's alarm is set to 15
\* seconds, whatever was pending.
EnterBlock(w) ==
    /\ pipelines[w].pc = "loop" /\ pipelines[w].idx < MaxChunks
    /\ IF worker_model = "threads"
       THEN /\ pipelines' = [pipelines EXCEPT ![w].idx = @ + 1, ![w].value_errors = @ + 1]
            /\ UNCHANGED alarm
       ELSE /\ pipelines' = [pipelines EXCEPT ![w].idx = @ + 1, ![w].pc = "block",
                                              ![w].elapsed = 0]
            /\ alarm' = ChunkTimeout
    /\ TwoUnchanged

\* Lines 191-197 and 57-58 for request w: the block ends and its finally
\* disarms the process's alarm.
LeaveBlock(w) ==
    /\ pipelines[w].pc = "block"
    /\ pipelines' = [pipelines EXCEPT ![w].pc = "loop", ![w].elapsed = 0]
    /\ alarm' = 0
    /\ TwoUnchanged

\* Time passes while some block is under way and no alarm is due.
Tick ==
    /\ \E w \in Workers : pipelines[w].pc = "block"
    /\ alarm = 0 \/ alarm > TickSeconds
    /\ \A w \in Workers :
          pipelines[w].pc = "block" => pipelines[w].elapsed + TickSeconds <= MaxBlockSeconds
    /\ pipelines' = Later(TickSeconds)
    /\ alarm' = IF alarm > 0 THEN alarm - TickSeconds ELSE 0
    /\ TwoUnchanged

\* Lines 46-47, 57-58 and 198-199: the alarm comes due while request w is
\* the one running in its block; timeout_handler raises TimeoutException
\* there, the finally disarms the alarm and the chunk is skipped.
AlarmGoesOff(w) ==
    /\ alarm \in 1..TickSeconds
    /\ pipelines[w].pc = "block"
    /\ pipelines' = [Later(alarm) EXCEPT
                        ![w].pc = "loop",
                        ![w].elapsed = 0,
                        ![w].timeouts = @ \cup {[chunk |-> pipelines[w].idx,
                                                  after |-> pipelines[w].elapsed + alarm]}]
    /\ alarm' = 0
    /\ TwoUnchanged

NextTwo ==
    \/ \E w \in Workers : EnterBlock(w)
    \/ \E w \in Workers : LeaveBlock(w)
    \/ Tick
    \/ \E w \in Workers : AlarmGoesOff(w)

SpecTwo == InitTwo /\ [][NextTwo]_vars

-----------------------------------------------------------------------------
(* process_document run twice on one upload with a deterministic gateway:  *)
(* the upload and what the gateway does for each chunk are fixed before    *)
(* the first run; the form is chosen anew for the second.                  *)

\* A PDF of k pages that gives a text of k chunks, the last one short of a character.
PdfOfChunks(k) ==
    [parse |-> "ok", pages |-> [i \in 1..k |-> [raises |-> FALSE, text |-> Body(chunk_size - 1)]]]

\* The uploads: PDFs of 1..MaxChunks chunks, a PDF read at the second attempt,
\* a PDF read at neither, a Word file too short to process, one whose parsing
\* outlasts the deadline, one that cannot be parsed.
ReplayFiles ==
    {[name |-> "../My Report.PDF", doc |-> PdfOfChunks(k), chunks |-> k] : k \in 1..MaxChunks}
    \cup {[name |-> "../My Report.PDF", chunks |-> 1,
            doc |-> [parse |-> "reread", pages |-> PdfOfChunks(1).pages]],
           [name |-> "../My Report.PDF", chunks |-> 0,
            doc |-> [parse |-> "fail", pages |-> << >>]],
           [name |-> "memo.doc", chunks |-> 0,
            doc |-> [parse |-> "ok", paragraphs |-> << Body(MinTextLen - 1) >>]],
           [name |-> "memo.doc", chunks |-> 0,
            doc |-> [parse |-> "timeout", paragraphs |-> << >>]],
           [name |-> "essay.docx", chunks |-> 0,
            doc |-> [parse |-> "fail", paragraphs |-> << >>]]}

\* The form fields: absent, integers, and one or the other not an integer.
ReplayForms ==
    {[summary_length |-> None, question_count |-> None],
     [summary_length |-> " 20 ", question_count |-> " 20 "],
     [summary_length |-> "abc", question_count |-> None],
     [summary_length |-> None, question_count |-> ""]}

\* What the gateway does for the two prompts of one chunk.
ChunkScripts ==
    {[summary |-> sm, questions |-> q] :
        sm \in {[kind |-> "content", content |-> "Sum-A"], [kind |-> "no_choices", content |-> None],
                [kind |-> "missing_key", content |-> None]},
        q \in {[kind |-> "content", content |-> "Q: a\nA: 1"],
               [kind |-> "no_choices", content |-> None],
               [kind |-> "deadline", content |-> None]}}

InitReplay ==
    /\ FLASK_ENV = "development"
    /\ session = EmptySession
    /\ ok200 = FALSE
    /\ logged_out = FALSE
    /\ request = [route |-> "process_document", Authorization |-> None]
    /\ whop_status = "none"
    /\ response = NoResponse
    /\ pc = "body"
    /\ DocInit
    /\ file \in ReplayFiles
    /\ gateway \in [1..file.chunks -> ChunkScripts]
    /\ form \in ReplayForms
    /\ pages_read = << >>
    /\ previous = NoRun
    /\ reader_calls = << >>
    /\ PoolInit

ReplayReceive == ReceiveUploadOf(TRUE, file.name, form.summary_length, form.question_count)

ReplayExtract ==
    /\ ExtractFile(file.doc)
    /\ reader_calls' = IF IsPdf(filename) THEN ReaderCalls("pdf", file.doc)
                       ELSE IF IsWord(filename) THEN ReaderCalls("word", file.doc)
                       ELSE << >>

ReplaySummarize == pc = "summary" /\ SummarizeWith(gateway[idx].summary)

ReplayAsk == pc = "questions" /\ AskQuestionsWith(gateway[idx].questions)

\* The first run is over: the same upload is posted again, with any form.
Again ==
    /\ pc = "idle" /\ ~previous.over
    /\ previous' = [over |-> TRUE, form |-> form, response |-> response,
                    llm_calls |-> llm_calls, prompts |-> Prompts(llm_calls, chunks)]
    /\ form' \in ReplayForms
    /\ response' = NoResponse
    /\ pc' = "body"
    /\ DocReset
    /\ reader_calls' = << >>
    /\ UNCHANGED << FLASK_ENV, request, file, gateway, pages_read >>
    /\ UNCHANGED poolVars
    /\ UNCHANGED authVars

NextReplay ==
    \/ ReplayReceive
    \/ ArmWordTimeout
    \/ ReplayExtract
    \/ CheckText
    \/ NextChunk
    \/ ReplaySummarize
    \/ ReplayAsk
    \/ ExtendQuestions
    \/ Aggregate
    \/ Again

SpecReplay == InitReplay /\ [][NextReplay]_vars

-----------------------------------------------------------------------------
(* The claims.                                                             *)

\* C1: for every text, the chunks of size chunk_size = 5000 concatenated in
\* order are the text again, every chunk but the last has exactly chunk_size
\* characters, no chunk is empty, and the empty text has no chunks.
C1_ChunksPartitionText ==
    pc = "chunked" =>
        /\ Join("", chunks) = text
        /\ \A i \in 1..(Len(chunks) - 1) : Len(chunks[i]) = chunk_size
        /\ \A i \in 1..Len(chunks) : Len(chunks[i]) >= 1
        /\ (text = "" => chunks = << >>)

\* A text of two full chunks and a shorter third one has been chunked.
C1_Witness ==
    /\ pc = "chunked"
    /\ Len(text) > 2 * chunk_size
    /\ Len(chunks) = 3
    /\ Len(chunks[3]) < chunk_size

\* The lines of a reply as the parser sees them: trimmed.
TrimmedLines(reply) == LET ls == Split(reply, "\n") IN [i \in 1..Len(ls) |-> Strip(ls[i])]

Min(S) == CHOOSE x \in S : \A y \in S : x <= y

\* The members of a finite set of integers in increasing order.
RECURSIVE Sorted(_)
Sorted(S) == IF S = {} THEN << >> ELSE << Min(S) >> \o Sorted(S \ {Min(S)})

\* The pairs the claim promises for a reply: one per "Q:" line, in line order,
\* answered by the first "A:" line before the next "Q:" line, if any.
PromisedPairs(reply) ==
    LET ls == TrimmedLines(reply)
        qlines == {i \in 1..Len(ls) : StartsWith(ls[i], "Q:")}
        next_q(i) == IF \E j \in qlines : j > i THEN Min({j \in qlines : j > i})
                     ELSE Len(ls) + 1
        alines(i) == {j \in (i + 1)..(next_q(i) - 1) : StartsWith(ls[j], "A:")}
        pair(i) == [question |-> Strip(From(ls[i], 2)),
                    answer |-> IF alines(i) = {} THEN ""
                               ELSE Strip(From(ls[Min(alines(i))], 2))]
        order == Sorted(qlines)
    IN  [k \in 1..Len(order) |-> pair(order[k])]

\* C2: the parser emits exactly one pair per line that begins with "Q:" (the
\* line trimmed, as the parser reads it), in line order; its answer is the text
\* of the first "A:" line after it and before the next "Q:" line, or "" when
\* there is none; no other line adds or changes a pair.
C2_ParserPairs ==
    pc = "parsed" => questions = PromisedPairs(result)

\* A reply whose first question is followed directly by a second one, which is
\* answered, has been parsed.
C2_Witness ==
    /\ pc = "parsed"
    /\ Len(questions) = 2
    /\ questions[1].answer = ""
    /\ questions[2].answer # ""

\* The positions inside the body of process_document.
PipelinePcs == {"extract", "word", "check_text"} \cup LoopPcs

\* process_document has answered the request at hand.
Answered ==
    /\ pc = "idle"
    /\ request.route = "process_document"
    /\ "json" \in DOMAIN response

\* process_document has answered with its success response.
Succeeded == Answered /\ response.status = 200

\* C3: when the extracted text has 99 characters or fewer once trimmed, the
\* request ends with 400 "No readable text in file" and no chunk reaches the
\* generators; with 100 or more the pipeline goes on to chunk and generate.
C3_ShortTextRejected ==
    [][/\ (pc = "check_text" /\ Len(Strip(text)) <= 99) =>
              (pc' = "idle"
                /\ response' = Json(400, [error |-> "No readable text in file"])
                /\ chunks' = << >> /\ idx' = 0 /\ llm_calls' = << >>)
       /\ (pc = "check_text" /\ Len(Strip(text)) >= 100) =>
              (pc' = "loop" /\ response' = NoResponse /\ chunks' # << >>)
       /\ (pc' \in LoopPcs \/ llm_calls' # << >>) => Len(Strip(text')) >= 100]_vars

\* A text of exactly 99 characters was refused.
C3_Witness ==
    /\ pc = "idle"
    /\ Len(text) = 99
    /\ response = Json(400, [error |-> "No readable text in file"])
    /\ extractor_calls # << >>
    /\ llm_calls = << >>

\* C4: when the alarm went off during every chunk of an extracted document,
\* the response is 200 with the summary "No summary generated" and the
\* one-element placeholder question list.
C4_AllTimedOutGivesPlaceholders ==
    (pc = "idle" /\ request.route = "process_document"
        /\ chunks # << >> /\ deadlines_fired = Len(chunks)) =>
        /\ response.status = 200
        /\ response.json.summary = "No summary generated"
        /\ response.json.questions = << JsonString("No questions generated") >>

\* How far the loop of line 188 is from its end.
Rank ==
    4 * (Len(chunks) - idx)
        + (CASE pc = "summary" -> 3 [] pc = "questions" -> 2 [] pc = "parse" -> 1
             [] OTHER -> 0)

\* C5: once the loop over the chunks is entered, every step of the handler
\* either stays in the loop with no response given, brings the loop nearer its
\* end and leaves it a chunk to take or the aggregation to do, or is the
\* success response (200, status "success") given when every chunk was taken.
\* So the loop ends, in success, whatever fails inside it, and never in a 400
\* or a 500.
C5_LoopAlwaysSucceeds ==
    [][(pc \in LoopPcs) =>
          ((pc' \in LoopPcs /\ response' = NoResponse /\ Rank' < Rank
                /\ idx' <= Len(chunks') /\ chunks' = chunks)
           \/ (pc' = "idle" /\ idx = Len(chunks)
                 /\ response'.status = 200 /\ response'.json.status = "success"))]_vars

\* A two-chunk document was answered with success although the alarm went off
\* during one chunk and the LLM failed otherwise during the other.
C5_Witness ==
    /\ Succeeded
    /\ Len(chunks) = 2
    /\ idx = 2
    /\ deadlines_fired = 1
    /\ summaries = << >>
    /\ response.json.status = "success"

\* The request at hand carries no token.
Tokenless == ~Truthy(request.Authorization)

\* A step in which the subscription API answers a verification call.
Verifying == whop_status = "none" /\ whop_status' # "none"

\* C6 as stated: a 200 sets the verified flag, a verified session is
\* authorized without a token, a non-200 answer or a transport failure never
\* sets the flag, and a session that has seen no 200 is never authorized
\* without a token.
C6_AsStated ==
    [][/\ (Verifying /\ Got200(whop_status')) => Verified(session')
       /\ (Verifying /\ ~Got200(whop_status')) => session' = session
       /\ (pc = "gate" /\ Verified(session) /\ Tokenless) => pc' = "body"
       /\ Verified(session') => ok200'
       /\ (pc = "gate" /\ ~ok200 /\ Tokenless) =>
              (pc' = "idle" /\ response' = Redirect("verify"))]_vars

\* C6, amended: as stated, with the last part holding outside development
\* mode: there a session that has seen no 200 since it was last cleared is
\* redirected to the verification page when it presents no token.
C6_VerificationSetsFlag ==
    [][/\ (Verifying /\ Got200(whop_status')) => Verified(session')
       /\ (Verifying /\ ~Got200(whop_status')) => session' = session
       /\ (pc = "gate" /\ Verified(session) /\ Tokenless) => pc' = "body"
       /\ Verified(session') => ok200'
       /\ (pc = "gate" /\ FLASK_ENV # "development" /\ ~ok200 /\ Tokenless) =>
              (pc' = "idle" /\ response' = Redirect("verify"))]_vars

\* Outside development mode a tokenless request to a protected route passed
\* the gate on a session that an earlier 200 had verified.
C6_Witness ==
    /\ FLASK_ENV = "production"
    /\ pc = "body"
    /\ request.route \in ProtectedRoutes
    /\ request.Authorization = None
    /\ whop_status = "none"
    /\ Verified(session)

\* The gate's two grounds for admitting the request at hand.
Admissible == Verified(session) \/ (~Tokenless /\ Got200(whop_status'))

\* C7: outside development mode the body of a protected route starts only
\* from the gate, and the gate starts it only when the session is verified or
\* the request's token is accepted with a 200: it does so for every verified
\* session and for every token answered 200 with the identity, and every
\* request with neither ground gets the redirect to the verification page.
\* In development mode the gate admits every request.
C7_GateGuardsBodies ==
    [][/\ (pc' \in {"body"} \cup PipelinePcs /\ request'.route \in ProtectedRoutes
             /\ pc \notin {"body"} \cup PipelinePcs) => pc = "gate"
       /\ (pc = "gate" /\ FLASK_ENV = "development") => pc' = "body"
       /\ (pc = "gate" /\ FLASK_ENV # "development" /\ pc' = "body") => Admissible
       /\ (pc = "gate" /\ FLASK_ENV # "development"
             /\ (Verified(session) \/ (~Tokenless /\ whop_status' = "200"))) => pc' = "body"
       /\ (pc = "gate" /\ FLASK_ENV # "development" /\ ~Admissible) =>
              (pc' = "idle" /\ response' = Redirect("verify"))]_vars

\* Outside development mode a request whose token the subscription API
\* refused was redirected at the gate of process_document.
C7_Witness ==
    /\ FLASK_ENV = "production"
    /\ pc = "idle"
    /\ request.route = "process_document"
    /\ whop_status = "non200"
    /\ response = Redirect("verify")
    /\ extractor_calls = << >>

\* C8: logout leaves the session with neither whop_verified nor whop_user,
\* and outside development mode every tokenless request to a protected route
\* is from then on redirected to the verification page, until a verification
\* gets a 200.
C8_LogoutClearsSession ==
    [][/\ (pc = "body" /\ request.route = "logout") =>
              (DOMAIN session' \cap {"whop_verified", "whop_user"} = {} /\ logged_out')
       /\ (logged_out /\ ~logged_out') => (Verifying /\ Got200(whop_status'))
       /\ (pc = "gate" /\ FLASK_ENV # "development" /\ logged_out /\ Tokenless) =>
              (pc' = "idle" /\ response' = Redirect("verify"))]_vars

\* Outside development mode a session was verified by a token on a request
\* to /dashboard and then logged out.
C8_Witness ==
    /\ FLASK_ENV = "production"
    /\ pc = "idle"
    /\ request.route = "dashboard"
    /\ request.Authorization = None
    /\ response = Redirect("verify")
    /\ logged_out
    /\ session = EmptySession

\* The three checks of the claim on the upload of the request at hand.
UploadAccepted ==
    /\ raw_filename # None
    /\ filename # None /\ filename # ""
    /\ LET name == Lower(filename)
       IN  EndsWith(name, ".pdf") \/ EndsWith(name, ".doc") \/ EndsWith(name, ".docx")

\* C9: an extractor runs or an LLM request is made only for an upload with a
\* file field, a non-empty sanitized filename and a .pdf, .doc or .docx
\* extension in any case; an upload failing one of these is answered 400 with
\* no extractor run and no LLM request made.
C9_NoParsingBeforeChecks ==
    /\ (extractor_calls # << >> \/ llm_calls # << >> \/ pc \in PipelinePcs \ {"extract"})
          => UploadAccepted
    /\ (Answered /\ ~UploadAccepted) =>
          /\ response.status = 400
          /\ extractor_calls = << >>
          /\ llm_calls = << >>

\* An upload named data.txt was answered 400 without any extractor running.
C9_Witness ==
    /\ Answered
    /\ raw_filename = "data.txt"
    /\ response = Json(400, [error |-> "Unsupported file type"])
    /\ extractor_calls = << >>

\* C10: every element of the questions list of a success response is a pair
\* with a question and an answer.
C10_QuestionsArePairs ==
    Succeeded =>
        \A i \in 1..Len(response.json.questions) :
            {"question", "answer"} \subseteq DOMAIN response.json.questions[i]

\* The pages that yield text: extract_text() returns, and returns something.
ReadablePages(pages) == SelectSeq(pages, LAMBDA p : ~p.raises /\ p.text # "")

\* The texts of the readable pages, each trimmed, one per line, in page order.
ReadableText(pages) ==
    LET rs == ReadablePages(pages)
    IN  Strip(Join("\n", [i \in 1..Len(rs) |-> Strip(rs[i].text)]))

\* C11: for a PDF that parses, extract_text_from_pdf returns (no page makes
\* it raise), it has called extract_text() on every page exactly once in page
\* order, and it returns the text of the readable pages in page order, or the
\* sentinel "No readable text found in PDF" when there is none.
C11_PdfSkipsFailingPages ==
    (pc = "pdf_done" /\ file.parse # "fail") =>
        /\ text # None
        /\ pages_read = [i \in 1..Len(file.pages) |-> i - 1]
        /\ text = IF ReadableText(file.pages) = "" THEN "No readable text found in PDF"
                  ELSE ReadableText(file.pages)

\* A PDF of five pages whose third page fails gave the text of the other four.
C11_Witness ==
    /\ pc = "pdf_done"
    /\ Len(file.pages) = 5
    /\ file.pages[3].raises
    /\ pages_read = << 0, 1, 2, 3, 4 >>
    /\ text = "A\nb\nA\nb"

\* The second run of the upload has been answered.
Replayed == previous.over /\ Answered

\* C12: the second of two runs of process_document on the same upload, with
\* the same form and the same gateway behaviour, gives the response of the
\* first (status, summary and questions) and posts the same LLM requests.
C12_SameDocumentSameResponse ==
    (Replayed /\ form = previous.form) =>
        (response = previous.response /\ llm_calls = previous.llm_calls)

\* A two-chunk upload was processed twice with success, a gateway reply
\* missing for one chunk.
C12_Witness ==
    /\ Replayed
    /\ form = previous.form
    /\ Len(chunks) = 2
    /\ response.status = 200
    /\ Len(llm_calls) = 4
    /\ \E i \in 1..2 : gateway[i].summary.kind = "no_choices"

\* The form's fields are integers where present.
IntegerForm(f) ==
    f.summary_length \in {None, " 20 "} /\ f.question_count \in {None, " 20 "}

\* C13: two runs on the same upload with the same gateway behaviour whose
\* forms both hold integers give the same response and post the same prompts,
\* whatever the integers; a run whose form holds a field that is no integer
\* is answered 400 and posts nothing.
C13_FormFieldsInert ==
    /\ (Replayed /\ IntegerForm(form) /\ IntegerForm(previous.form)) =>
          (response = previous.response /\ Prompts(llm_calls, chunks) = previous.prompts)
    /\ (Answered /\ ~IntegerForm(form)) =>
          (response = Json(400, [error |-> "Invalid input parameters"]) /\ llm_calls = << >>)

\* An upload was processed with success without form fields and then with
\* both fields set.
C13_Witness ==
    /\ Replayed
    /\ previous.form = [summary_length |-> None, question_count |-> None]
    /\ form = [summary_length |-> " 20 ", question_count |-> " 20 "]
    /\ response.status = 200
    /\ Len(previous.prompts) = 2

\* The generation step of a chunk fails: one of its two calls raises.
ChunkFailed(g) == Raised(GenerateSummary(g.summary)) \/ Raised(QueryOpenrouter(g.questions))

RECURSIVE CleanSummaries(_, _)
\* The summaries of the chunks from i on whose generation step did not fail.
CleanSummaries(g, i) ==
    IF i > Len(g) THEN << >>
    ELSE (IF ChunkFailed(g[i]) THEN << >> ELSE << GenerateSummary(g[i].summary).val >>)
            \o CleanSummaries(g, i + 1)

RECURSIVE CleanQuestions(_, _)
\* The questions of the chunks from i on whose generation step did not fail.
CleanQuestions(g, i) ==
    IF i > Len(g) THEN << >>
    ELSE (IF ChunkFailed(g[i]) THEN << >> ELSE ParseQuestions(QueryOpenrouter(g[i].questions).val))
            \o CleanQuestions(g, i + 1)

\* C14: a success response is made of the chunks whose generation step did
\* not fail: no summary and no question of a chunk that hit the deadline or
\* raised is in it, the failure coming after the chunk's summary included.
C14_FailedChunkContributesNothing ==
    Succeeded =>
        response.json = SuccessBody(CleanSummaries(gateway, 1), CleanQuestions(gateway, 1))

\* Every call of the gateway returned without content.
AllSoftFailures ==
    \A i \in 1..Len(gateway) :
        gateway[i].summary.kind = "no_choices" /\ gateway[i].questions.kind = "no_choices"

\* C15: when every gateway call of a processed upload returned without
\* content, the response holds the placeholder summary and the placeholder
\* question list.
C15_SoftFailuresGivePlaceholders ==
    (Succeeded /\ AllSoftFailures) =>
        /\ response.json.summary = "No summary generated"
        /\ response.json.questions = << JsonString("No questions generated") >>

\* The summaries of the successful chunks joined by a space and trimmed.
JoinedSummaries == Strip(Join(" ", CleanSummaries(gateway, 1)))

\* C16: the chunks are taken one at a time in document order, nothing is
\* answered before the last one is done, and the success response holds the
\* summaries of the successful chunks joined by a single space in chunk order
\* and trimmed, and their questions concatenated in chunk order.
C16_AggregateInChunkOrder ==
    /\ \A i, j \in 1..Len(llm_calls) : i < j => llm_calls[i].chunk <= llm_calls[j].chunk
    /\ \A i \in 1..Len(llm_calls) : llm_calls[i].chunk <= idx
    /\ (pc \in LoopPcs) => response = NoResponse
    /\ Succeeded =>
          /\ idx = Len(chunks)
          /\ JoinedSummaries # "" => response.json.summary = JoinedSummaries
          /\ CleanQuestions(gateway, 1) # << >> =>
                response.json.questions = CleanQuestions(gateway, 1)

\* The upload is one its extractor raises on.
ExtractionFails == file.doc.parse \in {"fail", "timeout"}

\* C17: when the extractor raises, process_document answers 500 with the
\* cause in the message, takes no chunk and posts no LLM request; the cause of
\* a Word deadline is "Word processing timed out", that of a Word parse
\* failure begins "Word extraction error: ", that of a PDF one "PDF extraction
\* error: ".
C17_ExtractionFailureIs500 ==
    /\ (pc \in LoopPcs \/ llm_calls # << >> \/ chunks # << >>) => ~ExtractionFails
    /\ (Answered /\ IntegerForm(form) /\ ExtractionFails) =>
          /\ response.status = 500
          /\ idx = 0
          /\ LET msg == response.json.error
                 head == "Failed to process document: "
             IN  IF file.doc.parse = "timeout"
                 THEN msg = head \o "Word processing timed out"
                 ELSE IF IsWord(filename)
                 THEN StartsWith(msg, head \o "Word extraction error: ")
                 ELSE StartsWith(msg, head \o "PDF extraction error: ")

\* A Word upload whose parsing outlasted the deadline was answered 500.
C17_Witness ==
    /\ Answered
    /\ file.doc.parse = "timeout"
    /\ reader_calls = << "Document(BytesIO)" >>
    /\ response = Json(500, [error |-> "Failed to process document: Word processing timed out"])

\* C18: the PDF stream is parsed once, or twice when the first attempt
\* failed; a Word file once; each chunk has at most one summary request and
\* one question request, the latter right after a summary request of the same
\* chunk that returned; no request is posted for a call that found no key.
C18_NothingRetried ==
    /\ reader_calls \in {<< >>, << "PdfReader(file)" >>,
                          << "PdfReader(file)", "PdfReader(BytesIO)" >>,
                          << "Document(BytesIO)" >>}
    /\ Len(reader_calls) = 2 => file.doc.parse # "ok"
    /\ \A i, j \in 1..Len(llm_calls) : i < j => llm_calls[i] # llm_calls[j]
    /\ \A i \in 1..Len(llm_calls) :
          llm_calls[i].kind = "questions" =>
             /\ i > 1
             /\ llm_calls[i - 1] = [kind |-> "summary", chunk |-> llm_calls[i].chunk]
             /\ gateway[llm_calls[i].chunk].summary.kind \in {"content", "no_choices"}
    /\ \A i \in 1..Len(llm_calls) :
          llm_calls[i].kind = "summary" => gateway[llm_calls[i].chunk].summary.kind # "missing_key"

\* A PDF read at the second attempt was processed with one summary request
\* and one question request.
C18_Witness ==
    /\ Answered
    /\ reader_calls = << "PdfReader(file)", "PdfReader(BytesIO)" >>
    /\ response.status = 200
    /\ llm_calls = << [kind |-> "summary", chunk |-> 1], [kind |-> "questions", chunk |-> 1] >>

\* The positions inside the with block of line 190 and that of line 250.
ChunkBlockPcs == {"summary", "questions", "parse"}
WordBlockPcs == {"word"}

\* C20: within one request the alarm is pending exactly inside a timeout
\* block, with the seconds of that block; every exit from a block (normal
\* end, deadline, other exception) leaves it disarmed, so none is pending
\* between chunks, during aggregation or after the response; and the alarm
\* goes off only inside the block of the chunk at hand, which is then left.
C20_AlarmDisarmedOnExit ==
    /\ [](/\ (pc \in ChunkBlockPcs) => alarm = ChunkTimeout
          /\ (pc \in WordBlockPcs) => alarm = WordTimeout
          /\ (pc \notin ChunkBlockPcs \cup WordBlockPcs) => alarm = 0)
    /\ [][/\ (pc \in ChunkBlockPcs \cup WordBlockPcs
                /\ pc' \notin ChunkBlockPcs \cup WordBlockPcs) => alarm' = 0
          /\ (deadlines_fired' > deadlines_fired) =>
                /\ pc \in ChunkBlockPcs
                /\ alarm = ChunkTimeout
                /\ idx' = idx
                /\ pc' = "loop"
                /\ alarm' = 0]_vars

\* The alarm went off during the first of two chunks and none is pending
\* before the second is taken.
C20_Witness ==
    /\ pc = "loop"
    /\ Len(chunks) = 2
    /\ idx = 1
    /\ deadlines_fired = 1
    /\ alarm = 0

\* C19: with two requests' chunk loops running at once in one process, a
\* chunk is left on a timeout only when its own block has lasted the 15
\* seconds of its deadline, and no block outlasts its deadline: the alarm
\* of one request neither fires in, shortens nor cancels that of the other.
C19_DeadlinesArePerRequest ==
    \A w \in Workers :
        /\ \A t \in pipelines[w].timeouts : t.after = ChunkTimeout
        /\ pipelines[w].pc = "block" => pipelines[w].elapsed <= ChunkTimeout

=============================================================================
